---- MODULE Spec2Model ----
(***************************************************************************)
(* Model of backend/app.py: the vehicle-inspection backend.                *)
(*                                                                         *)
(* State: the two SQLite tables the handlers touch (submissions,           *)
(* submission_images), the files under UPLOAD_FOLDER and the HTTP response  *)
(* of the last request (a generated report is part of the response: no     *)
(* handler reads reports/ back).  Requests are handled one at a time, each *)
(* handler being one action.                                               *)
(*                                                                         *)
(* Text is modelled as a sequence of one-character strings, so that        *)
(* str.lower(), str.strip(), the `in` substring test and os.path.splitext  *)
(* are computed and not assumed.                                           *)
(***************************************************************************)
EXTENDS Integers, Sequences, FiniteSets, TLC

VARIABLES
    submissions,        \* table submissions: id -> row
    submission_images,  \* table submission_images, in rowid (insertion) order
    uploads,            \* files under UPLOAD_FOLDER: path -> bytes
    ollama_calls,       \* number of calls made to ollama.chat
    response,           \* the HTTP response to the last request
    accepted_uploads,   \* history: per upload answered 200, its submission id, bytes and
                        \*   what the collaborator did
    last_request,       \* history: the request of the last upload answered 200, if any
    changes,            \* history: accepted uploads that differed from their predecessor
    ollama_out,         \* a direct call of validate_image_with_ai: the collaborator's outcome
    verdict             \* a direct call of validate_image_with_ai: what it returned

vars == <<submissions, submission_images, uploads, ollama_calls,
          response, accepted_uploads, last_request, changes, ollama_out, verdict>>

(***************************************************************************)
(* Bounds of the exploration.                                              *)
(*   MaxSubmissions  submissions created                                   *)
(*   MaxImages       uploads answered 200 (rows of submission_images)      *)
(*   MaxChanges      accepted uploads that differ from the accepted upload *)
(*                   before them (in submission id, image type, file or    *)
(*                   collaborator outcome); repeats are not limited        *)
(*   MaxFragments    fragments a response text is built from               *)
(***************************************************************************)
MaxSubmissions == 2
MaxImages == 9
MaxChanges == 1
MaxFragments == 2

(***************************************************************************)
(* Text helpers.                                                           *)
(***************************************************************************)
UpperCase == <<"A","B","C","D","E","F","G","H","I","J","K","L","M",
               "N","O","P","Q","R","S","T","U","V","W","X","Y","Z">>
LowerCase == <<"a","b","c","d","e","f","g","h","i","j","k","l","m",
               "n","o","p","q","r","s","t","u","v","w","x","y","z">>
Whitespace == {" ", "\t", "\n", "\r"}

\* str.lower(), one character
LowerChar(c) ==
    IF \E i \in 1..Len(UpperCase) : UpperCase[i] = c
    THEN LowerCase[CHOOSE i \in 1..Len(UpperCase) : UpperCase[i] = c]
    ELSE c

\* str.lower()
Lower(s) == [i \in 1..Len(s) |-> LowerChar(s[i])]

RECURSIVE LStrip(_)
LStrip(s) == IF s # <<>> /\ Head(s) \in Whitespace THEN LStrip(Tail(s)) ELSE s

RECURSIVE RStrip(_)
RStrip(s) ==
    IF s # <<>> /\ s[Len(s)] \in Whitespace
    THEN RStrip(SubSeq(s, 1, Len(s) - 1))
    ELSE s

\* str.strip()
Strip(s) == RStrip(LStrip(s))

\* Python's `needle in hay` on strings
In(needle, hay) ==
    \E i \in 0..(Len(hay) - Len(needle)) :
        SubSeq(hay, i + 1, i + Len(needle)) = needle

str_yes == <<"y","e","s">>
str_valid == <<"v","a","l","i","d">>
str_no == <<"n","o">>
str_invalid == <<"i","n","v","a","l","i","d">>
str_Valid_image == <<"V","a","l","i","d"," ","i","m","a","g","e">>
str_Validation_error == <<"V","a","l","i","d","a","t","i","o","n"," ",
                          "e","r","r","o","r",":"," ">>

(***************************************************************************)
(* Configuration.                                                          *)
(***************************************************************************)
UPLOAD_FOLDER == "uploads"

IMAGE_REQUIREMENTS ==
    << [type |-> "front",        label |-> "Front View"],
       [type |-> "back",         label |-> "Rear View"],
       [type |-> "left",         label |-> "Left Side"],
       [type |-> "right",        label |-> "Right Side"],
       [type |-> "engine",       label |-> "Engine Bay"],
       [type |-> "dashboard",    label |-> "Dashboard"],
       [type |-> "vin",          label |-> "VIN Plate"],
       [type |-> "registration", label |-> "Registration"] >>

\* the prompt table of validate_image_with_ai (each prompt named by its subject)
prompts ==
    [t \in {"front", "back", "left", "right", "engine", "dashboard", "vin",
            "registration"} |->
        CASE t = "front"        -> "entire front of a vehicle"
          [] t = "back"         -> "entire rear of a vehicle"
          [] t = "left"         -> "complete left side of a vehicle"
          [] t = "right"        -> "complete right side of a vehicle"
          [] t = "engine"       -> "engine compartment"
          [] t = "dashboard"    -> "dashboard with visible odometer reading"
          [] t = "vin"          -> "VIN plate with readable characters"
          [] t = "registration" -> "current vehicle registration document"]

(***************************************************************************)
(* validate_image_with_ai.  `out` is what the inference collaborator did:  *)
(*   [kind |-> "content", content |-> s]   response['message']['content']  *)
(*   [kind |-> "raises",  message |-> m]   ollama.chat raised e, str(e) = m*)
(*   [kind |-> "malformed"]                the response has no 'message'   *)
(***************************************************************************)
str_KeyError_message == <<"'","m","e","s","s","a","g","e","'">>

ExceptionText(image_type, out) ==
    IF image_type \notin DOMAIN prompts THEN <<"'", image_type, "'">>
    ELSE IF out.kind = "raises" THEN out.message
    ELSE str_KeyError_message

Raises(image_type, out) ==
    image_type \notin DOMAIN prompts \/ out.kind # "content"

\* mutant: a verdict that honours a negation in the text
ClassifyNegationAware(content) ==
    [valid  |-> (In(str_yes, content) \/ In(str_valid, content))
                    /\ ~In(str_invalid, content),
     reason |-> IF In(str_no, content) \/ In(str_invalid, content)
                THEN content ELSE str_Valid_image]

Classify(content) ==
    [valid  |-> In(str_yes, content) \/ In(str_valid, content),
     reason |-> IF In(str_no, content) \/ In(str_invalid, content)
                THEN content ELSE str_Valid_image]

\* mutant: a failure of the collaborator passes the image
validate_image_with_ai_fail_open(image_type, out) ==
    IF Raises(image_type, out)
    THEN [valid |-> TRUE, reason |-> str_Valid_image]
    ELSE Classify(Strip(Lower(out.content)))

validate_image_with_ai(image_type, out) ==
    IF Raises(image_type, out)
    THEN [valid  |-> FALSE,
          reason |-> str_Validation_error \o ExceptionText(image_type, out)]
    ELSE Classify(Strip(Lower(out.content)))

(***************************************************************************)
(* Identifiers and inputs.                                                 *)
(*                                                                         *)
(* uuid.uuid4() yields a value that occurs nowhere else in the database;   *)
(* the model names it by the table it is drawn for and its ordinal there   *)
(* (rows are never deleted, so the ordinal is fresh).                      *)
(***************************************************************************)
uuid4(table, n) == <<table, n>>

\* a submission id a client may send that no create_submission has returned or
\* ever returns (a client cannot name a uuid4 that is yet to be drawn)
NoSuchSubmission == <<"submissions", 0>>

Tokens == {"token-a"}
Vehicles == {[vehicle_make |-> "Toyota", vehicle_model |-> "Corolla",
              vehicle_year |-> 2020]}

\* the uploads a client makes (image_type, file name and bytes), each with what
\* the inference collaborator does on it; "windshield" is not a required type
Uploads ==
    { [image_type |-> "front",
       file |-> [filename |-> <<"a", ".", "j", "p", "g">>, bytes |-> "bytes-1"],
       out  |-> [kind |-> "content", content |-> <<" ", "Y", "e", "s">>]],
      [image_type |-> "front",
       file |-> [filename |-> <<"a", ".", "j", "p", "g">>, bytes |-> "bytes-2"],
       out  |-> [kind |-> "raises", message |-> <<"d", "o", "w", "n">>]],
      [image_type |-> "vin",
       file |-> [filename |-> <<"a", ".", "j", "p", "g">>, bytes |-> "bytes-1"],
       out  |-> [kind |-> "content", content |-> <<"B", "l", "u", "r">>]],
      [image_type |-> "windshield",
       file |-> [filename |-> <<"a", ".", "j", "p", "g">>, bytes |-> "bytes-1"],
       out  |-> [kind |-> "content", content |-> <<" ", "Y", "e", "s">>]] }

(***************************************************************************)
(* os.path.splitext(p)[1]: from the last dot, unless only dots precede it  *)
(* in the last path component.                                             *)
(***************************************************************************)
LastIndex(s, c) ==
    IF \E i \in 1..Len(s) : s[i] = c
    THEN CHOOSE i \in 1..Len(s) : s[i] = c /\ \A j \in (i + 1)..Len(s) : s[j] # c
    ELSE 0

splitext_ext(p) ==
    LET sepIndex == LastIndex(p, "/")
        dotIndex == LastIndex(p, ".")
    IN  IF dotIndex > sepIndex
           /\ \E j \in (sepIndex + 1)..(dotIndex - 1) : p[j] # "."
        THEN SubSeq(p, dotIndex, Len(p))
        ELSE <<>>

\* filename = f"{submission_id}_{image_type}{file_ext}"
Filename(submission_id, image_type, file_ext) ==
    <<submission_id, "_", image_type, file_ext>>

\* filepath = os.path.join(UPLOAD_FOLDER, filename)
Filepath(filename) == <<UPLOAD_FOLDER, "/">> \o filename

\* mutant: the image type is not checked
IsRequiredTypeUnchecked(image_type) == image_type = image_type

IsRequiredType(image_type) ==
    \E i \in 1..Len(IMAGE_REQUIREMENTS) : IMAGE_REQUIREMENTS[i].type = image_type

\* SELECT COUNT(*) FROM submission_images WHERE submission_id = ?
CountImages(images, submission_id) ==
    Cardinality({i \in 1..Len(images) : images[i].submission_id = submission_id})

\* mutant: one image more than required completes a submission
IsCompleteStrict(count) == count > Len(IMAGE_REQUIREMENTS)

\* the completion test of upload_image
IsComplete(count) == count >= Len(IMAGE_REQUIREMENTS)

\* mutant: a second upload of a (submission, category) pair replaces the row
InsertOrReplaceImage(images, row) ==
    IF \E i \in 1..Len(images) : /\ images[i].submission_id = row.submission_id
                                 /\ images[i].image_type = row.image_type
    THEN [i \in 1..Len(images) |->
            IF /\ images[i].submission_id = row.submission_id
               /\ images[i].image_type = row.image_type
            THEN row ELSE images[i]]
    ELSE Append(images, row)

\* INSERT INTO submission_images ... VALUES (...).  get_db() never issues
\* PRAGMA foreign_keys = ON, so SQLite does not enforce the FOREIGN KEY clause
\* of the table: the row is inserted whatever submission_id is.
InsertImage(images, row) == Append(images, row)

\* mutant: UPDATE submissions SET status = 'complete', without the WHERE clause
UpdateStatusEverywhere(subs, submission_id) ==
    [s \in DOMAIN subs |-> [subs[s] EXCEPT !.status = "complete"]]

\* UPDATE submissions SET status = 'complete' WHERE id = ?  (no row: no effect)
UpdateStatus(subs, submission_id) ==
    IF submission_id \in DOMAIN subs
    THEN [subs EXCEPT ![submission_id].status = "complete"]
    ELSE subs

(***************************************************************************)
(* Init: init_db() on an empty database and an empty upload folder.        *)
(***************************************************************************)
Init ==
    /\ submissions = <<>>
    /\ submission_images = <<>>
    /\ uploads = <<>>
    /\ ollama_calls = 0
    /\ response = [op |-> "none", status |-> 0]
    /\ accepted_uploads = <<>>
    /\ last_request = <<>>
    /\ changes = 0
    /\ ollama_out = <<>>
    /\ verdict = <<>>

(***************************************************************************)
(* POST /api/submissions                                                   *)
(***************************************************************************)
create_submission ==
    /\ Cardinality(DOMAIN submissions) < MaxSubmissions
    /\ \E data \in Vehicles, token \in Tokens :
        LET submission_id == uuid4("submissions", Cardinality(DOMAIN submissions) + 1)
            row == [user_id |-> token,
                    vehicle_make |-> data.vehicle_make,
                    vehicle_model |-> data.vehicle_model,
                    vehicle_year |-> data.vehicle_year,
                    status |-> "pending"]
        IN  /\ submissions' = (submission_id :> row) @@ submissions
            /\ response' = [op |-> "create_submission", status |-> 200,
                            id |-> submission_id, submission_status |-> "pending"]
    /\ UNCHANGED <<submission_images, uploads, ollama_calls,
                   accepted_uploads, last_request, changes, ollama_out, verdict>>

(***************************************************************************)
(* POST /api/submissions/{submission_id}/upload                            *)
(***************************************************************************)
\* the submission ids a client sends
ClientSubmissionIds == DOMAIN submissions \cup {NoSuchSubmission}

\* raise HTTPException(status_code=400, detail="Invalid image type")
upload_image_invalid_type ==
    /\ \E submission_id \in ClientSubmissionIds, upload \in Uploads :
        ~IsRequiredType(upload.image_type)
    /\ response' = [op |-> "upload_image", status |-> 400,
                    detail |-> "Invalid image type"]
    /\ UNCHANGED <<submissions, submission_images, uploads, ollama_calls,
                   accepted_uploads, last_request, changes, ollama_out, verdict>>

\* open(filepath, "wb") raises OSError: the request ends 500 before validation
upload_image_storage_failure ==
    /\ \E submission_id \in ClientSubmissionIds, upload \in Uploads :
        IsRequiredType(upload.image_type)
    /\ response' = [op |-> "upload_image", status |-> 500]
    /\ UNCHANGED <<submissions, submission_images, uploads, ollama_calls,
                   accepted_uploads, last_request, changes, ollama_out, verdict>>

\* the rest of the handler, from the file write to the response
StoreAndRecord(submission_id, image_type, file, out) ==
    LET file_ext == splitext_ext(file.filename)
        filename == Filename(submission_id, image_type, file_ext)
        filepath == Filepath(filename)
        validation == validate_image_with_ai(image_type, out)
        image_id == uuid4("submission_images", Len(submission_images) + 1)
        row == [id |-> image_id,
                submission_id |-> submission_id,
                image_type |-> image_type,
                image_path |-> filepath,
                validation_result |-> IF validation.valid THEN "yes" ELSE "no",
                validation_reason |-> validation.reason]
        images == InsertImage(submission_images, row)
    IN  /\ uploads' = (filepath :> file.bytes) @@ uploads
        /\ ollama_calls' = ollama_calls + 1
        /\ submission_images' = images
        /\ submissions' = IF IsComplete(CountImages(images, submission_id))
                          THEN UpdateStatus(submissions, submission_id)
                          ELSE submissions
        /\ response' = [op |-> "upload_image", status |-> 200,
                        id |-> image_id, valid |-> validation.valid,
                        reason |-> validation.reason,
                        image_url |-> <<"/", UPLOAD_FOLDER, "/">> \o filename]
        /\ accepted_uploads' = Append(accepted_uploads,
                                      [submission_id |-> submission_id,
                                       bytes |-> file.bytes,
                                       out |-> out])

upload_image ==
    /\ Len(submission_images) < MaxImages
    /\ \E submission_id \in ClientSubmissionIds, upload \in Uploads :
        LET request == [submission_id |-> submission_id, upload |-> upload]
        IN  /\ IsRequiredType(upload.image_type)
            /\ last_request \in {<<>>, <<request>>} \/ changes < MaxChanges
            /\ StoreAndRecord(submission_id, upload.image_type, upload.file, upload.out)
            /\ last_request' = <<request>>
            /\ changes' = IF last_request \in {<<>>, <<request>>}
                          THEN changes ELSE changes + 1
    /\ UNCHANGED <<ollama_out, verdict>>

(***************************************************************************)
(* GET /api/submissions/{submission_id}/report                             *)
(***************************************************************************)
\* generate_pdf_report: fetchone() is None for an unknown id, and
\* submission['vehicle_year'] then raises TypeError, which nothing catches:
\* the framework answers 500 Internal Server Error
get_submission_report ==
    /\ \E submission_id \in ClientSubmissionIds :
        response' = IF submission_id \in DOMAIN submissions
                    THEN [op |-> "get_submission_report", status |-> 200,
                          submission_id |-> submission_id,
                          pdf_path |-> <<"reports", "/", submission_id, ".pdf">>]
                    ELSE [op |-> "get_submission_report", status |-> 500,
                          submission_id |-> submission_id]
    /\ UNCHANGED <<submissions, submission_images, uploads, ollama_calls,
                   accepted_uploads, last_request, changes, ollama_out, verdict>>

\* the requests of the API, one at a time
Next ==
    \/ create_submission
    \/ upload_image_invalid_type
    \/ upload_image_storage_failure
    \/ upload_image
    \/ get_submission_report

Spec == Init /\ [][Next]_vars

(***************************************************************************)
(* validate_image_with_ai called on its own, on every response text built  *)
(* from at most MaxFragments of the fragments below, and on failures of    *)
(* the collaborator.                                                       *)
(***************************************************************************)
Fragments ==
    { <<"Y", "e", "s">>, <<"Y", "E", "S">>, <<"y", "e">>, <<"s">>,
      <<"v", "a", "l", "i", "d">>, <<"I", "n", "v", "a", "l", "i", "d">>,
      <<"V", "A", "L">>, <<"i", "d">>,
      <<"n", "o">>, <<"N">>, <<"o">>,
      <<" ">>, <<"\n">>, <<",">>, <<"b", "l", "u", "r">> }

RECURSIVE Texts(_)
Texts(n) ==
    IF n = 0 THEN {<<>>}
    ELSE LET shorter == Texts(n - 1)
         IN  shorter \cup {t \o f : t \in shorter, f \in Fragments}

\* the responses section 8 of the specification names
ExampleTexts ==
    { <<"Y","e","s",","," ","c","l","e","a","r","l","y"," ","v","i","s","i","b","l","e">>,
      <<" ","y","e","s"," ">>,
      <<"i","n","v","a","l","i","d"," ","i","m","a","g","e">>,
      <<"u","n","c","l","e","a","r",","," ","b","l","u","r","r","y"," ","p","h","o","t","o">> }

ClassifyOutcomes ==
    {[kind |-> "content", content |-> t] : t \in Texts(MaxFragments) \cup ExampleTexts}
    \cup {[kind |-> "raises", message |-> m] :
            m \in {<<>>, <<"d", "o", "w", "n">>, <<"y", "e", "s">>}}
    \cup {[kind |-> "malformed"]}

ClassifyTypes == {"front", "registration", "windshield"}

classify ==
    /\ verdict = <<>>
    /\ \E image_type \in ClassifyTypes, out \in ClassifyOutcomes :
        /\ ollama_out' = <<[image_type |-> image_type, out |-> out]>>
        /\ verdict' = <<validate_image_with_ai(image_type, out)>>
    /\ UNCHANGED <<submissions, submission_images, uploads, ollama_calls, response,
                   accepted_uploads, last_request, changes>>

SpecClassify == Init /\ [][classify]_vars

(***************************************************************************)
(* The vocabulary of the specification, written independently of the       *)
(* definitions above.                                                      *)
(***************************************************************************)
RequiredCategory ==
    {"front", "back", "left", "right", "engine", "dashboard", "vin", "registration"}

text_yes == <<"y", "e", "s">>
text_valid == <<"v", "a", "l", "i", "d">>
text_invalid == <<"i", "n", "v", "a", "l", "i", "d">>
text_validation_error ==
    <<"V", "a", "l", "i", "d", "a", "t", "i", "o", "n", " ", "e", "r", "r", "o", "r", ":", " ">>

\* s with its characters lower-cased and surrounding whitespace removed
Normalized(s) ==
    LET solid == {i \in 1..Len(s) : s[i] \notin {" ", "\t", "\n", "\r"}}
    IN  IF solid = {} THEN <<>>
        ELSE LET first == CHOOSE i \in solid : \A j \in solid : i <= j
                 last  == CHOOSE i \in solid : \A j \in solid : j <= i
             IN  [k \in 1..(last - first + 1) |-> LowerChar(s[first + k - 1])]

RECURSIVE Contains(_, _)
Contains(hay, needle) ==
    IF Len(hay) < Len(needle) THEN FALSE
    ELSE \/ SubSeq(hay, 1, Len(needle)) = needle
         \/ Contains(Tail(hay), needle)

HasPrefix(s, prefix) ==
    /\ Len(s) >= Len(prefix)
    /\ \A i \in 1..Len(prefix) : s[i] = prefix[i]

\* the rows of submission_images that reference submission s
RowsOf(s) == {i \in 1..Len(submission_images) : submission_images[i].submission_id = s}

\* the accepted uploads made to submission s
AcceptedTo(s) == {i \in 1..Len(accepted_uploads) : accepted_uploads[i].submission_id = s}

Failed(out) == out.kind # "content"

IsUploadOk(r) == r.op = "upload_image" /\ r.status = 200

\* a direct call on which the collaborator was reached and returned a text
Returned(call) == call.image_type \in RequiredCategory /\ call.out.kind = "content"

(***************************************************************************)
(* C1: every existing submission is 'complete' if and only if at least as  *)
(* many submission_images rows reference it as there are required          *)
(* categories, and 'pending' otherwise; the categories and verdicts of the *)
(* rows play no part.                                                      *)
(***************************************************************************)
C1_StatusIffRowCount ==
    \A s \in DOMAIN submissions :
        /\ submissions[s].status \in {"pending", "complete"}
        /\ (submissions[s].status = "complete")
               <=> (Cardinality(RowsOf(s)) >= Cardinality(RequiredCategory))

\* a submission completed by rows of one category, none of them valid, beside a
\* pending submission that has a row
C1_Witness ==
    \E s, t \in DOMAIN submissions :
        /\ submissions[s].status = "complete"
        /\ \A i \in RowsOf(s) :
              /\ submission_images[i].image_type = "front"
              /\ submission_images[i].validation_result = "no"
        /\ submissions[t].status = "pending"
        /\ RowsOf(t) # {}

(***************************************************************************)
(* C2: an upload naming a category that is not required is answered 400    *)
(* and has no effect: no file, no classifier call, no row, no status       *)
(* change.  Files, rows and calls are never removed, so it suffices that   *)
(* none exists for such a category and that the rejecting step changes     *)
(* nothing.                                                                *)
(***************************************************************************)
C2_UnknownCategoryRejected ==
    /\ [](/\ \A i \in 1..Len(submission_images) :
                submission_images[i].image_type \in RequiredCategory
          /\ \A path \in DOMAIN uploads : path[5] \in RequiredCategory
          /\ ollama_calls = Len(submission_images))
    /\ [][(response'.op = "upload_image" /\ response'.status = 400)
            => UNCHANGED <<submissions, submission_images, uploads, ollama_calls>>]_vars

\* the rejection, in a state that has a submission, rows and files
C2_Witness ==
    /\ response.op = "upload_image"
    /\ response.status = 400
    /\ submission_images # <<>>
    /\ DOMAIN submissions # {}

(***************************************************************************)
(* C5: a failure of the inference collaborator during an upload is not     *)
(* propagated: the upload is answered 200 with valid = false and a reason  *)
(* starting "Validation error: ", one row with validation_result 'no' is   *)
(* recorded for it, and the row counts toward completion.                  *)
(***************************************************************************)
C5_InferenceFailureRecordedInvalid ==
    /\ ollama_calls = Len(submission_images)
    /\ Len(accepted_uploads) = Len(submission_images)
    /\ \A i \in 1..Len(accepted_uploads) :
          Failed(accepted_uploads[i].out) =>
              /\ submission_images[i].submission_id = accepted_uploads[i].submission_id
              /\ submission_images[i].validation_result = "no"
              /\ HasPrefix(submission_images[i].validation_reason, text_validation_error)
    /\ (IsUploadOk(response) /\ Failed(accepted_uploads[Len(accepted_uploads)].out)) =>
          /\ response.valid = FALSE
          /\ HasPrefix(response.reason, text_validation_error)
    /\ \A s \in DOMAIN submissions :
          Cardinality(AcceptedTo(s)) >= Cardinality(RequiredCategory)
              => submissions[s].status = "complete"

\* a submission completed by exactly the required number of uploads, the last
\* of which the collaborator failed on
C5_Witness ==
    /\ IsUploadOk(response)
    /\ Failed(accepted_uploads[Len(accepted_uploads)].out)
    /\ \E s \in DOMAIN submissions :
          /\ accepted_uploads[Len(accepted_uploads)].submission_id = s
          /\ Cardinality(RowsOf(s)) = Cardinality(RequiredCategory)
          /\ submissions[s].status = "complete"
          /\ \E i \in RowsOf(s) : submission_images[i].validation_result = "yes"

(***************************************************************************)
(* C6: a report requested for a submission id that does not exist is       *)
(* answered with a client error (4xx).                                     *)
(***************************************************************************)
C6_MissingSubmissionReportIsClientError ==
    (response.op = "get_submission_report"
        /\ response.submission_id \notin DOMAIN submissions)
    => response.status \in 400..499

(***************************************************************************)
(* C7: a submission is created 'pending'; the only step that changes the   *)
(* status of a submission is an accepted upload to it, from 'pending' to   *)
(* 'complete'; no submission disappears.                                   *)
(***************************************************************************)
C7_StatusChangesOnlyByUpload ==
    [][/\ DOMAIN submissions \subseteq DOMAIN submissions'
       /\ \A s \in DOMAIN submissions' \ DOMAIN submissions :
             submissions'[s].status = "pending"
       /\ \A s \in DOMAIN submissions :
             submissions'[s].status # submissions[s].status =>
                 /\ submissions[s].status = "pending"
                 /\ submissions'[s].status = "complete"
                 /\ IsUploadOk(response')
                 /\ Len(submission_images') = Len(submission_images) + 1
                 /\ submission_images'[Len(submission_images')].submission_id = s]_vars

\* a submission that stayed complete through a further upload, a second
\* submission still pending, and a report just served
C7_Witness ==
    /\ response.op = "get_submission_report"
    /\ \E s, t \in DOMAIN submissions :
          /\ submissions[s].status = "complete"
          /\ Cardinality(RowsOf(s)) > Cardinality(RequiredCategory)
          /\ submissions[t].status = "pending"

(***************************************************************************)
(* C8: every accepted upload appends exactly one row with a fresh id and   *)
(* leaves the earlier rows as they were, also when the same (submission,   *)
(* category) pair was uploaded before; no other step touches the table; so *)
(* a submission has as many rows as accepted uploads were made to it.      *)
(***************************************************************************)
C8_OneNewRowPerAcceptedUpload ==
    /\ [](/\ \A s \in DOMAIN submissions \cup {NoSuchSubmission} :
                Cardinality(RowsOf(s)) = Cardinality(AcceptedTo(s))
          /\ \A i, j \in 1..Len(submission_images) :
                i # j => submission_images[i].id # submission_images[j].id)
    /\ [][IF accepted_uploads' # accepted_uploads
          THEN /\ IsUploadOk(response')
               /\ Len(submission_images') = Len(submission_images) + 1
               /\ SubSeq(submission_images', 1, Len(submission_images)) = submission_images
               /\ response'.id = submission_images'[Len(submission_images')].id
          ELSE submission_images' = submission_images]_vars

\* the same (submission, category) pair uploaded twice: two rows
C8_Witness ==
    \E i, j \in 1..Len(submission_images) :
        /\ i < j
        /\ submission_images[i].submission_id = submission_images[j].submission_id
        /\ submission_images[i].image_type = submission_images[j].image_type
        /\ submission_images[i].id # submission_images[j].id
        /\ submission_images[i].submission_id \in DOMAIN submissions

(***************************************************************************)
(* C9: an upload naming a submission id that does not exist is answered    *)
(* with an error and writes nothing, so every row references an existing   *)
(* submission.                                                             *)
(***************************************************************************)
C9_RowsReferenceExistingSubmission ==
    /\ \A i \in 1..Len(submission_images) :
          submission_images[i].submission_id \in DOMAIN submissions
    /\ \A i \in 1..Len(accepted_uploads) :
          accepted_uploads[i].submission_id \in DOMAIN submissions

(***************************************************************************)
(* C10: the file at each row's image_path holds the bytes of the upload    *)
(* that created the row.                                                   *)
(***************************************************************************)
C10_StoredFileHoldsUploadedBytes ==
    \A i \in 1..Len(submission_images) :
        /\ submission_images[i].image_path \in DOMAIN uploads
        /\ uploads[submission_images[i].image_path] = accepted_uploads[i].bytes

(***************************************************************************)
(* C3: when the collaborator returns a response, valid is true exactly     *)
(* when the lower-cased, stripped text contains "yes" or contains "valid"; *)
(* so every response containing "invalid" is valid.                        *)
(***************************************************************************)
C3_ValidIffYesOrValid ==
    \A i \in 1..Len(verdict) :
        Returned(ollama_out[i]) =>
            LET text == Normalized(ollama_out[i].out.content)
            IN  /\ verdict[i].valid <=> (Contains(text, text_yes) \/ Contains(text, text_valid))
                /\ Contains(text, text_invalid) => verdict[i].valid

\* a response that says "invalid", without "yes", classified valid
C3_Witness ==
    /\ verdict # <<>>
    /\ Returned(ollama_out[1])
    /\ Contains(Normalized(ollama_out[1].out.content), text_invalid)
    /\ ~Contains(Normalized(ollama_out[1].out.content), text_yes)
    /\ ollama_out[1].out.content # Normalized(ollama_out[1].out.content)
    /\ verdict[1].valid

(***************************************************************************)
(* C4: a response whose lower-cased, stripped text contains neither "yes"  *)
(* nor "valid" is classified valid = false, with that text as the reason.  *)
(***************************************************************************)
C4_InvalidReasonIsText ==
    \A i \in 1..Len(verdict) :
        LET text == Normalized(ollama_out[i].out.content)
        IN  (Returned(ollama_out[i])
                /\ ~Contains(text, text_yes) /\ ~Contains(text, text_valid))
            => /\ verdict[i].valid = FALSE
               /\ verdict[i].reason = text

====
